---- MODULE Spec2Model ----
(***************************************************************************)
(* eqsignal-poc: one run of main() -- load_prices, make_feature_table,     *)
(* time_series_cv_predictions, the metrics, the metrics.json write, the    *)
(* plots and the PDF report -- as a state machine.                         *)
(*                                                                         *)
(* Floating-point values are pairs <<n, d>>: d > 0 is the rational n/d,    *)
(* <<0, 0>> is NaN, <<1, 0>> is +inf and <<-1, 0>> is -inf, so that the    *)
(* divisions of the code (0/0, x/0) give what IEEE arithmetic gives.       *)
(* Rows and dates are numbered from 1 (pandas position p is row p + 1);    *)
(* a date is the number of the business day in the aligned price frame.    *)
(*                                                                         *)
(* What comes from outside the run is drawn where the code reads it: the   *)
(* provider's answer in load_prices, the fold count where main hands       *)
(* args.splits to time_series_cv_predictions. The library calls are        *)
(* modelled by what they do: pandas' pct_change, rolling, shift, dropna,   *)
(* asfreq and ffill; scikit-learn's TimeSeriesSplit (n_splits >= 2, no     *)
(* more folds than rows, test blocks of floor(n / (k + 1)) rows at the     *)
(* end); LogisticRegression's refusal of one-class labels. The fitted      *)
(* classifier itself is not computed: its answers are drawn from Rules.    *)
(***************************************************************************)
EXTENDS Integers, Sequences, FiniteSets, TLC

VARIABLES
    pc,            \* where main() stands
    symbol,        \* args.symbol, a sequence of characters
    n_splits,      \* args.splits as time_series_cv_predictions receives it
    response,      \* what the price provider answered: close by trading day
    prices,        \* the aligned close column load_prices returns
    cache,         \* data/raw/<symbol>.csv: <<>> or <<[name, rows]>>
    X, y, meta,    \* the tables of make_feature_table
    folds,         \* the (tr, te) pairs TimeSeriesSplit.split yields
    fold,          \* how many folds the loop has completed
    oof_pred,      \* out-of-sample class per row, NaN where not written
    oof_proba,     \* out-of-sample probability per row, NaN where not written
    writers,       \* history: per row, the folds that wrote it
    fold_idx,      \* the (tr, te) pairs the loop appended
    cls, pnl,      \* the two metric groups: <<>> or <<mapping>>
    metrics_file,  \* reports/metrics.json: <<>> or <<text>>
    n_writes,      \* history: how often metrics.json was written
    figures,       \* the figure files written, in order
    pdf,           \* the report written: <<>> or <<path>>
    metrics,       \* what build_pdf_report parsed from metrics.json: <<>> or <<mapping>>
    log,           \* history: the stages called, in order
    err            \* the exception that ended the run, [kind |-> "none"] if none

vars == <<pc, symbol, n_splits, response, prices, cache, X, y, meta,
          folds, fold, oof_pred, oof_proba, writers, fold_idx,
          cls, pnl, metrics_file, n_writes, figures, pdf, metrics, log, err>>

(***************************************************************************)
(* Bounds of the input family.                                             *)
(***************************************************************************)
MinLen == 53
MaxLen == 64
MaxK == 3
StartPrice == 200
GapDay == 57

(***************************************************************************)
(* Program constants: the windows of features.py.                          *)
(***************************************************************************)
RetShort == 1
RetLong == 5
MomFast == 5
MomSlow == 20
MaFast == 10
MaSlow == 50
VolWin == 10
RsiWin == 14
FwdHorizon == 5

(***************************************************************************)
(* IEEE-like values.                                                       *)
(***************************************************************************)
NaN == <<0, 0>>
PosInf == <<1, 0>>
NegInf == <<-1, 0>>
Zero == <<0, 1>>
One == <<1, 1>>
Hundred == <<100, 1>>

Num(p) == <<p, 1>>
IsNaN(v) == v[2] = 0 /\ v[1] = 0
IsInf(v) == v[2] = 0 /\ v[1] # 0
IsFinite(v) == v[2] > 0
Sgn(n) == IF n > 0 THEN 1 ELSE IF n < 0 THEN -1 ELSE 0
Abs(n) == IF n < 0 THEN -n ELSE n

FAdd(a, b) ==
    IF IsNaN(a) \/ IsNaN(b) THEN NaN
    ELSE IF IsInf(a) /\ IsInf(b) THEN (IF a[1] = b[1] THEN a ELSE NaN)
    ELSE IF IsInf(a) THEN a
    ELSE IF IsInf(b) THEN b
    ELSE IF a[2] = b[2] THEN <<a[1] + b[1], a[2]>>
    ELSE <<a[1] * b[2] + b[1] * a[2], a[2] * b[2]>>

FNeg(a) == IF IsNaN(a) THEN NaN ELSE <<-a[1], a[2]>>

FSub(a, b) == FAdd(a, FNeg(b))

FDiv(a, b) ==
    IF IsNaN(a) \/ IsNaN(b) THEN NaN
    ELSE IF IsInf(a) /\ IsInf(b) THEN NaN
    ELSE IF IsInf(a) THEN <<a[1] * (IF b[1] < 0 THEN -1 ELSE 1), 0>>
    ELSE IF IsInf(b) THEN Zero
    ELSE IF b[1] = 0 THEN <<Sgn(a[1]), 0>>
    ELSE <<a[1] * b[2] * Sgn(b[1]), a[2] * Abs(b[1])>>

\* the order of the extended reals; finite values sit between the infinities
InfRank(v) == IF IsInf(v) THEN 2 * v[1] ELSE 0

FGt(a, b) ==
    IF IsNaN(a) \/ IsNaN(b) THEN FALSE
    ELSE IF IsInf(a) \/ IsInf(b) THEN InfRank(a) > InfRank(b)
    ELSE a[1] * b[2] > b[1] * a[2]

FEq(a, b) ==
    IF IsNaN(a) \/ IsNaN(b) THEN FALSE
    ELSE IF IsInf(a) \/ IsInf(b) THEN a = b
    ELSE a[1] * b[2] = b[1] * a[2]

IsZero(v) == IsFinite(v) /\ v[1] = 0

(***************************************************************************)
(* pandas column operations; a column is a sequence of values.             *)
(***************************************************************************)
\* a function on 1..n, held as the sequence it is
Column(f) == f \o <<>>

\* Series.pct_change(n): col / col.shift(n) - 1
PctChange(col, n) ==
    Column([t \in 1..Len(col) |->
        IF t <= n THEN NaN ELSE FSub(FDiv(col[t], col[t - n]), One)])

\* Series.diff()
Diff(col) ==
    Column([t \in 1..Len(col) |->
        IF t <= 1 THEN NaN ELSE FSub(col[t], col[t - 1])])

\* Series.shift(-n)
ShiftBack(col, n) ==
    Column([t \in 1..Len(col) |-> IF t + n > Len(col) THEN NaN ELSE col[t + n]])

\* the sum of col[lo..hi], halving the range
RECURSIVE WinSum(_, _, _)
WinSum(col, lo, hi) ==
    IF lo > hi THEN Zero
    ELSE IF lo = hi THEN col[lo]
    ELSE LET mid == (lo + hi) \div 2
         IN  FAdd(WinSum(col, lo, mid), WinSum(col, mid + 1, hi))

WinFull(col, n, t) == t >= n /\ \A s \in (t - n + 1)..t : ~IsNaN(col[s])

\* Series.rolling(n).mean(): min_periods = n, so a window that is short or
\* holds a NaN gives NaN.
RollingMean(col, n) ==
    Column([t \in 1..Len(col) |->
        IF WinFull(col, n, t)
        THEN FDiv(WinSum(col, t - n + 1, t), Num(n))
        ELSE NaN])

\* Series.rolling(n).std(): NaN on a short window, 0 when the n values are
\* equal; a positive deviation is kept as One, its magnitude is not modelled.
RollingStd(col, n) ==
    Column([t \in 1..Len(col) |->
        IF ~WinFull(col, n, t) THEN NaN
        ELSE IF \A s \in (t - n + 1)..t : FEq(col[s], col[t]) THEN Zero
        ELSE One])

\* Series.clip(lower=0) and -Series.clip(upper=0)
ClipLower0(col) ==
    Column([t \in 1..Len(col) |->
        IF IsNaN(col[t]) THEN NaN ELSE IF FGt(Zero, col[t]) THEN Zero ELSE col[t]])

NegClipUpper0(col) ==
    Column([t \in 1..Len(col) |->
        IF IsNaN(col[t]) THEN NaN
        ELSE IF FGt(col[t], Zero) THEN Zero ELSE FNeg(col[t])])

\* (a > b).astype(int): a comparison with NaN is False
GtInt(a, b) == IF FGt(a, b) THEN One ELSE Zero

(***************************************************************************)
(* features.py                                                             *)
(***************************************************************************)
\* an RSI that caps at 100 when the average loss is zero
RsiCapped(close, n) ==
    LET delta == Diff(close)
        up == ClipLower0(delta)
        down == NegClipUpper0(delta)
        ma_up == RollingMean(up, n)
        ma_down == RollingMean(down, n)
    IN  Column([t \in 1..Len(close) |->
            IF IsNaN(ma_up[t]) \/ IsNaN(ma_down[t]) THEN NaN
            ELSE IF IsZero(ma_down[t]) THEN Hundred
            ELSE FSub(Hundred, FDiv(Hundred, FAdd(One, FDiv(ma_up[t], ma_down[t]))))])

\* _rsi(close, n)
Rsi(close, n) ==
    LET delta == Diff(close)
        up == ClipLower0(delta)
        down == NegClipUpper0(delta)
        ma_up == RollingMean(up, n)
        ma_down == RollingMean(down, n)
    IN  Column([t \in 1..Len(close) |->
            LET rs == FDiv(ma_up[t], ma_down[t])
            IN  FSub(Hundred, FDiv(Hundred, FAdd(One, rs)))])

\* a forward return that is not shifted back
FwdRetUnshifted(close) == PctChange(close, FwdHorizon)

\* fwd_5d_ret: close.pct_change(5).shift(-5)
FwdRet(close) == ShiftBack(PctChange(close, FwdHorizon), FwdHorizon)

\* the frame of make_feature_table before dropna, one record per row
FeatureFrame(p) ==
    LET close == p
        ret_1d == PctChange(close, RetShort)
        ret_5d == PctChange(close, RetLong)
        mom_5 == PctChange(close, MomFast)
        mom_20 == PctChange(close, MomSlow)
        ma_10 == RollingMean(close, MaFast)
        ma_50 == RollingMean(close, MaSlow)
        vol_10 == RollingStd(ret_1d, VolWin)
        rsi_14 == Rsi(close, RsiWin)
        fwd == FwdRet(close)
    IN  Column([t \in 1..Len(p) |->
            [date |-> t, close |-> close[t], ret_1d |-> ret_1d[t],
             ret_5d |-> ret_5d[t], mom_5 |-> mom_5[t], mom_20 |-> mom_20[t],
             ma_10 |-> ma_10[t], ma_50 |-> ma_50[t],
             ma_cross |-> GtInt(ma_10[t], ma_50[t]),
             vol_10 |-> vol_10[t], rsi_14 |-> rsi_14[t],
             fwd_5d_ret |-> fwd[t], y_cls |-> GtInt(fwd[t], Zero)]])

FrameCols == {"close", "ret_1d", "ret_5d", "mom_5", "mom_20", "ma_10", "ma_50",
              "ma_cross", "vol_10", "rsi_14", "fwd_5d_ret", "y_cls"}
FeatureCols == <<"mom_5", "mom_20", "vol_10", "ma_10", "ma_50", "ma_cross", "rsi_14">>
MetaCols == <<"close", "ret_1d", "fwd_5d_ret">>

\* a dropna that looks at the label columns only
RowCompleteLabelOnly(row) == ~IsNaN(row.fwd_5d_ret) /\ ~IsNaN(row.y_cls)

\* DataFrame.dropna(): a row stays when no column of the frame is NaN
RowComplete(row) == \A c \in FrameCols : ~IsNaN(row[c])

DropNa(frame) == SelectSeq(frame, RowComplete)

\* df[cols]: the named columns of every row, under the row's date
Project(rows, cols) ==
    [i \in 1..Len(rows) |->
        [c \in {cols[j] : j \in 1..Len(cols)} \cup {"date"} |-> rows[i][c]]]

(***************************************************************************)
(* The price provider's answers: nothing, or a frame of closes by trading  *)
(* day. The closes are piecewise linear over len business days (slope d1   *)
(* up to day b, d2 for the next s days, d3 after); the provider has no row *)
(* for day gap when that is a day strictly inside the range (a holiday).   *)
(***************************************************************************)
Min(a, b) == IF a < b THEN a ELSE b
Max(a, b) == IF a > b THEN a ELSE b

Deltas == {-1, 0, 1}
Segments == {<<40, 15>>, <<53, 3>>}
Gaps == {0, GapDay}
Lens == (MinLen..MaxLen) \cup {100}
Symbols == {<<"^", "G", "S", "P", "C">>}
Splits == 1..MaxK

PriceAt(t, d1, d2, d3, b, s) ==
    StartPrice + d1 * (Min(t, b) - 1)
               + d2 * Max(0, Min(t - b, s))
               + d3 * Max(0, t - b - s)

TradingDays(len, gap) == {t \in 1..len : ~(t = gap /\ t > 1 /\ t < len)}

Frame(len, d1, d2, d3, seg, gap) ==
    [t \in TradingDays(len, gap) |-> PriceAt(t, d1, d2, d3, seg[1], seg[2])]

NoRows == [t \in {} |-> 0]

Responses ==
    {NoRows} \cup
    {Frame(len, d1, d2, d3, seg, gap) :
        len \in Lens, d1 \in Deltas, d2 \in Deltas, d3 \in Deltas,
        seg \in Segments, gap \in Gaps}

(***************************************************************************)
(* data.py                                                                 *)
(***************************************************************************)
\* df.empty
Empty(resp) == DOMAIN resp = {}

\* df.asfreq('B'): one row per business day from the first day to the last,
\* NaN where the provider has no row
AsFreqB(resp) ==
    LET first == CHOOSE d \in DOMAIN resp : \A e \in DOMAIN resp : d <= e
        last == CHOOSE d \in DOMAIN resp : \A e \in DOMAIN resp : e <= d
    IN  Column([t \in 1..(last - first + 1) |->
            IF first + t - 1 \in DOMAIN resp
            THEN Num(resp[first + t - 1])
            ELSE NaN])

\* .ffill(): a NaN takes the last value before it
Ffill(col) ==
    Column([t \in 1..Len(col) |->
        IF ~IsNaN(col[t]) THEN col[t]
        ELSE LET seen == {u \in 1..t : ~IsNaN(col[u])}
             IN  IF seen = {} THEN NaN
                 ELSE col[CHOOSE u \in seen : \A w \in seen : w <= u]])

\* symbol.replace('^', '_')
ReplaceCaret(sym) == [i \in 1..Len(sym) |-> IF sym[i] = "^" THEN "_" ELSE sym[i]]

CsvName(sym) == ReplaceCaret(sym) \o <<".csv">>

NoError == [kind |-> "none", text |-> "", arg |-> <<>>]

\* raise ValueError(f"No data returned for {symbol}.")
NoDataError(sym) == [kind |-> "ValueError", text |-> "No data returned for", arg |-> sym]

(***************************************************************************)
(* model.py                                                                *)
(***************************************************************************)
\* TimeSeriesSplit(n_splits=k): the constructor accepts k >= 2 only
SplitterOk(k) == k >= 2

\* TimeSeriesSplit.split on n rows: n_folds = k + 1 must not exceed n
SplitOk(n, k) == k + 1 <= n

TestSize(n, k) == n \div (k + 1)

\* a split that forgets the remainder: the i-th test block starts at i * test_size
TestStartNoRemainder(n, k, i) == i * TestSize(n, k)

\* test_starts = range(n - k * test_size, n, test_size), as 0-based positions
TestStart(n, k, i) == n - k * TestSize(n, k) + (i - 1) * TestSize(n, k)

\* a split whose test block starts one row early, on the last training row
SplitFoldOffByOne(n, k, i) ==
    [tr |-> 1..TestStart(n, k, i),
     te |-> TestStart(n, k, i)..(TestStart(n, k, i) + TestSize(n, k))]

\* a split that trains on a sliding window, the block before the test block
SplitFoldSliding(n, k, i) ==
    [tr |-> (TestStart(n, k, i) - TestSize(n, k) + 1)..TestStart(n, k, i),
     te |-> (TestStart(n, k, i) + 1)..(TestStart(n, k, i) + TestSize(n, k))]

\* the i-th pair: indices[:test_start], indices[test_start : test_start + test_size]
\* as sets of 1-based rows
SplitFold(n, k, i) ==
    [tr |-> 1..TestStart(n, k, i),
     te |-> (TestStart(n, k, i) + 1)..(TestStart(n, k, i) + TestSize(n, k))]

TimeSeriesSplit(n, k) == [i \in 1..k |-> SplitFold(n, k, i)]

\* a fit that accepts training labels of one class
SingleClassAccepted(labels, tr) == FALSE

\* LogisticRegression.fit refuses training labels of one class
SingleClass(labels, tr) == \A i \in tr, j \in tr : labels[i].y_cls = labels[j].y_cls

SingleClassError ==
    [kind |-> "ValueError", text |-> "needs samples of at least 2 classes", arg |-> <<>>]
SplitterError ==
    [kind |-> "ValueError", text |-> "n_splits=2 or more", arg |-> <<>>]
SplitError ==
    [kind |-> "ValueError", text |-> "number of folds greater than number of samples",
     arg |-> <<>>]

\* What a fitted pipeline answers on a test row. The fit is not computed: the
\* model takes any of these rules, so that every claim is checked for all.
Rules == {"zeros", "ones", "truth"}

Predict(rule, label) ==
    IF rule = "zeros" THEN Zero ELSE IF rule = "ones" THEN One ELSE label

\* predict_proba(...)[:, 1]: above one half exactly when the class is 1
PredictProba(rule, label) ==
    IF Predict(rule, label) = One THEN <<3, 4>> ELSE <<1, 4>>

\* oof[te] = values
WriteRows(oof, te, val(_)) ==
    [i \in 1..Len(oof) |-> IF i \in te THEN val(i) ELSE oof[i]]

\* np.full(shape=y.shape, fill_value=np.nan)
FullNaN(n) == [i \in 1..n |-> NaN]

(***************************************************************************)
(* evaluate.py                                                             *)
(***************************************************************************)
\* mask = ~np.isnan(oof_pred)
Scored(pred) == {i \in 1..Len(pred) : ~IsNaN(pred[i])}

Count(S) == Num(Cardinality(S))

\* a ratio without the zero_division guard: 0/0 is NaN
RatioUnguarded(a, b) == FDiv(Num(a), Num(b))

\* precision_score / recall_score with zero_division=0
RatioOrZero(a, b) == IF b = 0 THEN Zero ELSE FDiv(Num(a), Num(b))

\* roc_auc_score on two probability levels: the share of (positive, negative)
\* pairs ranked right, ties counting one half
RocAuc(labels, proba, rows) ==
    LET pos == {i \in rows : labels[i].y_cls = One}
        neg == rows \ pos
        gt == Cardinality({q \in pos \X neg : FGt(proba[q[1]], proba[q[2]])})
        eq == Cardinality({q \in pos \X neg : FEq(proba[q[1]], proba[q[2]])})
    IN  FDiv(Num(2 * gt + eq), Num(2 * Cardinality(pos) * Cardinality(neg)))

ClassificationReportOos(labels, pred, proba) ==
    LET rows == Scored(pred)
        hit == {i \in rows : pred[i] = labels[i].y_cls}
        tp == {i \in rows : pred[i] = One /\ labels[i].y_cls = One}
        pp == {i \in rows : pred[i] = One}
        ap == {i \in rows : labels[i].y_cls = One}
    IN  [n_oos |-> Count(rows),
         accuracy |-> FDiv(Count(hit), Count(rows)),
         precision_pos |-> RatioOrZero(Cardinality(tp), Cardinality(pp)),
         recall_pos |-> RatioOrZero(Cardinality(tp), Cardinality(ap)),
         roc_auc |-> IF \E i \in rows, j \in rows : labels[i].y_cls # labels[j].y_cls
                     THEN RocAuc(labels, proba, rows)
                     ELSE NaN]

\* simple_signal_pnl. The compounded return and the rank correlation are kept
\* as defined (One) or not (NaN, or exactly Zero with no position taken);
\* their magnitudes are not modelled.
SimpleSignalPnl(m, pred) ==
    LET rows == Scored(pred)
        long == {i \in rows : pred[i] = One}
        won == {i \in long : FGt(m[i].fwd_5d_ret, Zero)}
        flatRealized == \A i \in rows, j \in rows :
                            FEq(m[i].fwd_5d_ret, m[j].fwd_5d_ret)
        flatSignal == \A i \in rows, j \in rows : pred[i] = pred[j]
    IN  [strat_cum_return |->
             IF \A i \in long : IsZero(m[i].fwd_5d_ret) THEN Zero ELSE One,
         hit_rate_when_long |->
             IF long # {} THEN FDiv(Count(won), Count(long)) ELSE NaN,
         spearman_ic_signal_vs_fwd |->
             IF flatRealized \/ flatSignal THEN NaN ELSE One]

(***************************************************************************)
(* cli.py: json.dumps of the metrics, and the file names                   *)
(***************************************************************************)
RECURSIVE Gcd(_, _)
Gcd(a, b) == IF b = 0 THEN a ELSE Gcd(b, a % b)

\* a writer that rounds every finite number to two decimals
DumpsNumberRounded(v) ==
    IF IsNaN(v) THEN <<"NaN", 0, 0>>
    ELSE IF IsInf(v) THEN <<IF v[1] > 0 THEN "Infinity" ELSE "-Infinity", 0, 0>>
    ELSE LET n == (v[1] * 100) \div v[2]
             g == Gcd(Abs(n), 100)
         IN  <<"number", n \div g, 100 \div g>>

\* json.dumps of one number: NaN and the infinities are written as the bare
\* words NaN, Infinity and -Infinity; a finite number as its shortest
\* decimal, which is one text per value however it was computed
DumpsNumber(v) ==
    IF IsNaN(v) THEN <<"NaN", 0, 0>>
    ELSE IF IsInf(v) THEN <<IF v[1] > 0 THEN "Infinity" ELSE "-Infinity", 0, 0>>
    ELSE LET g == Gcd(Abs(v[1]), v[2]) IN <<"number", v[1] \div g, v[2] \div g>>

\* json.dumps({"classification": cls, "pnl_sketch": pnl}, indent=2)
Dumps(c, q) ==
    [classification |-> [k \in DOMAIN c |-> DumpsNumber(c[k])],
     pnl_sketch |-> [k \in DOMAIN q |-> DumpsNumber(q[k])]]

(***************************************************************************)
(* report.py: json.loads of the metrics                                    *)
(***************************************************************************)
\* json.loads of one number: the bare words NaN, Infinity and -Infinity are
\* read as float('nan') and the infinities, a decimal as the value it denotes
LoadsNumber(tok) ==
    IF tok[1] = "NaN" THEN NaN
    ELSE IF tok[1] = "Infinity" THEN PosInf
    ELSE IF tok[1] = "-Infinity" THEN NegInf
    ELSE <<tok[2], tok[3]>>

\* metrics = json.loads(metrics_path.read_text())
Loads(text) ==
    [classification |->
         [k \in DOMAIN text.classification |-> LoadsNumber(text.classification[k])],
     pnl_sketch |->
         [k \in DOMAIN text.pnl_sketch |-> LoadsNumber(text.pnl_sketch[k])]]

PngPriceMa(sym) == sym \o <<"_price_ma.png">>
PngOosProba == <<"oos_proba.png">>
PngMomentum(sym) == sym \o <<"_momentum_5d.png">>
PdfPath(sym) == sym \o <<"_report.pdf">>

Stages == <<"load_prices", "make_feature_table", "time_series_cv_predictions",
            "classification_report_oos", "simple_signal_pnl", "write_metrics",
            "price_with_ma", "oos_prob_timeline", "momentum_states_plot",
            "build_pdf_report">>

(***************************************************************************)
(* The run.                                                                *)
(***************************************************************************)
Init ==
    /\ pc = "load"
    /\ symbol \in Symbols
    /\ n_splits = 0
    /\ response = NoRows
    /\ prices = <<>>
    /\ cache = <<>>
    /\ X = <<>>
    /\ y = <<>>
    /\ meta = <<>>
    /\ folds = <<>>
    /\ fold = 0
    /\ oof_pred = <<>>
    /\ oof_proba = <<>>
    /\ writers = <<>>
    /\ fold_idx = <<>>
    /\ cls = <<>>
    /\ pnl = <<>>
    /\ metrics_file = <<>>
    /\ n_writes = 0
    /\ figures = <<>>
    /\ pdf = <<>>
    /\ metrics = <<>>
    /\ log = <<>>
    /\ err = NoError

\* a load_prices that checks for an empty answer after writing the cache
LoadPricesEmptyAfterCache ==
    /\ pc = "load"
    /\ response' = NoRows
    /\ Empty(response')
    /\ log' = Append(log, "load_prices")
    /\ cache' = <<[name |-> CsvName(symbol), rows |-> <<>>]>>
    /\ err' = NoDataError(symbol)
    /\ pc' = "failed"
    /\ UNCHANGED <<symbol, n_splits, prices, X, y, meta, folds,
                   fold, oof_pred, oof_proba, writers, fold_idx, cls, pnl,
                   metrics_file, n_writes, figures, pdf, metrics>>

\* load_prices: the provider answered nothing
LoadPricesEmpty ==
    /\ pc = "load"
    /\ response' = NoRows
    /\ Empty(response')
    /\ log' = Append(log, "load_prices")
    /\ err' = NoDataError(symbol)
    /\ pc' = "failed"
    /\ UNCHANGED <<symbol, n_splits, prices, cache, X, y, meta, folds,
                   fold, oof_pred, oof_proba, writers, fold_idx, cls, pnl,
                   metrics_file, n_writes, figures, pdf, metrics>>

\* load_prices: align to business days, fill forward, write the cache
LoadPrices ==
    /\ pc = "load"
    /\ \E resp \in Responses :
         /\ ~Empty(resp)
         /\ response' = resp
         /\ prices' = Ffill(AsFreqB(resp))
    /\ log' = Append(log, "load_prices")
    /\ cache' = <<[name |-> CsvName(symbol), rows |-> prices']>>
    /\ pc' = "features"
    /\ UNCHANGED <<symbol, n_splits, X, y, meta, folds, fold, oof_pred,
                   oof_proba, writers, fold_idx, cls, pnl, metrics_file,
                   n_writes, figures, pdf, metrics, err>>

MakeFeatureTable ==
    /\ pc = "features"
    /\ log' = Append(log, "make_feature_table")
    /\ LET df == DropNa(FeatureFrame(prices))
       IN  /\ X' = Project(df, FeatureCols)
           /\ y' = Project(df, <<"y_cls">>)
           /\ meta' = Project(df, MetaCols)
    /\ pc' = "cv"
    /\ UNCHANGED <<symbol, n_splits, response, prices, cache, folds, fold,
                   oof_pred, oof_proba, writers, fold_idx, cls, pnl,
                   metrics_file, n_writes, figures, pdf, metrics, err>>

\* time_series_cv_predictions, line 25: the splitter refuses n_splits
CvSplitterFails ==
    /\ pc = "cv"
    /\ \E k \in Splits : ~SplitterOk(k) /\ n_splits' = k
    /\ log' = Append(log, "time_series_cv_predictions")
    /\ err' = SplitterError
    /\ pc' = "failed"
    /\ UNCHANGED <<symbol, response, prices, cache, X, y, meta, folds,
                   fold, oof_pred, oof_proba, writers, fold_idx, cls, pnl,
                   metrics_file, n_writes, figures, pdf, metrics>>

\* time_series_cv_predictions, lines 25-30
CvStart ==
    /\ pc = "cv"
    /\ \E k \in Splits : SplitterOk(k) /\ n_splits' = k
    /\ log' = Append(log, "time_series_cv_predictions")
    /\ oof_pred' = FullNaN(Len(y))
    /\ oof_proba' = FullNaN(Len(y))
    /\ writers' = [i \in 1..Len(y) |-> {}]
    /\ fold_idx' = <<>>
    /\ fold' = 0
    /\ pc' = "cv_loop"
    /\ UNCHANGED <<symbol, response, prices, cache, X, y, meta, folds,
                   cls, pnl, metrics_file, n_writes, figures, pdf, metrics, err>>

\* line 32, first step of the generator: more folds than rows
CvSplitFails ==
    /\ pc = "cv_loop"
    /\ fold = 0
    /\ ~SplitOk(Len(X), n_splits)
    /\ err' = SplitError
    /\ pc' = "failed"
    /\ UNCHANGED <<symbol, n_splits, response, prices, cache, X, y, meta, folds,
                   fold, oof_pred, oof_proba, writers, fold_idx, cls, pnl,
                   metrics_file, n_writes, figures, pdf, metrics, log>>

\* a loop that catches the failed fit and goes on to the next fold
CvFitFailsSkipped ==
    /\ pc = "cv_loop"
    /\ fold < n_splits
    /\ SplitOk(Len(X), n_splits)
    /\ LET pair == SplitFold(Len(X), n_splits, fold + 1)
       IN  /\ SingleClass(y, pair.tr)
           /\ folds' = Append(folds, pair)
           /\ fold_idx' = Append(fold_idx, pair)
    /\ fold' = fold + 1
    /\ UNCHANGED <<pc, symbol, n_splits, response, prices, cache, X, y, meta,
                   oof_pred, oof_proba, writers, cls, pnl, metrics_file,
                   n_writes, figures, pdf, metrics, log, err>>

\* lines 32-33: the next pair is yielded and the fit raises
CvFitFails ==
    /\ pc = "cv_loop"
    /\ fold < n_splits
    /\ SplitOk(Len(X), n_splits)
    /\ LET pair == SplitFold(Len(X), n_splits, fold + 1)
       IN  /\ SingleClass(y, pair.tr)
           /\ folds' = Append(folds, pair)
    /\ err' = SingleClassError
    /\ pc' = "failed"
    /\ UNCHANGED <<symbol, n_splits, response, prices, cache, X, y, meta, fold,
                   oof_pred, oof_proba, writers, fold_idx, cls, pnl,
                   metrics_file, n_writes, figures, pdf, metrics, log>>

\* lines 32-36: one pass of the loop
CvFold ==
    /\ pc = "cv_loop"
    /\ fold < n_splits
    /\ SplitOk(Len(X), n_splits)
    /\ LET pair == SplitFold(Len(X), n_splits, fold + 1)
       IN  /\ ~SingleClass(y, pair.tr)
           /\ folds' = Append(folds, pair)
           /\ \E rule \in Rules :
                LET cl(i) == Predict(rule, y[i].y_cls)
                    pr(i) == PredictProba(rule, y[i].y_cls)
                IN  /\ oof_pred' = WriteRows(oof_pred, pair.te, cl)
                    /\ oof_proba' = WriteRows(oof_proba, pair.te, pr)
           /\ writers' = [i \in 1..Len(writers) |->
                            IF i \in pair.te THEN writers[i] \cup {fold + 1}
                            ELSE writers[i]]
           /\ fold_idx' = Append(fold_idx, pair)
    /\ fold' = fold + 1
    /\ UNCHANGED <<pc, symbol, n_splits, response, prices, cache, X, y, meta,
                   cls, pnl, metrics_file, n_writes, figures, pdf, metrics, log, err>>

\* lines 38-42: the generator is exhausted
CvReturn ==
    /\ pc = "cv_loop"
    /\ fold = n_splits
    /\ SplitOk(Len(X), n_splits)
    /\ pc' = "classification"
    /\ UNCHANGED <<symbol, n_splits, response, prices, cache, X, y, meta, folds,
                   fold, oof_pred, oof_proba, writers, fold_idx, cls, pnl,
                   metrics_file, n_writes, figures, pdf, metrics, log, err>>

ClassificationReport ==
    /\ pc = "classification"
    /\ log' = Append(log, "classification_report_oos")
    /\ cls' = <<ClassificationReportOos(y, oof_pred, oof_proba)>>
    /\ pc' = "pnl"
    /\ UNCHANGED <<symbol, n_splits, response, prices, cache, X, y, meta, folds,
                   fold, oof_pred, oof_proba, writers, fold_idx, pnl,
                   metrics_file, n_writes, figures, pdf, metrics, err>>

SignalPnl ==
    /\ pc = "pnl"
    /\ log' = Append(log, "simple_signal_pnl")
    /\ pnl' = <<SimpleSignalPnl(meta, oof_pred)>>
    /\ pc' = "write"
    /\ UNCHANGED <<symbol, n_splits, response, prices, cache, X, y, meta, folds,
                   fold, oof_pred, oof_proba, writers, fold_idx, cls,
                   metrics_file, n_writes, figures, pdf, metrics, err>>

WriteMetrics ==
    /\ pc = "write"
    /\ log' = Append(log, "write_metrics")
    /\ metrics_file' = <<Dumps(cls[1], pnl[1])>>
    /\ n_writes' = n_writes + 1
    /\ pc' = "plot1"
    /\ UNCHANGED <<symbol, n_splits, response, prices, cache, X, y, meta, folds,
                   fold, oof_pred, oof_proba, writers, fold_idx, cls, pnl,
                   figures, pdf, metrics, err>>

PriceWithMa ==
    /\ pc = "plot1"
    /\ log' = Append(log, "price_with_ma")
    /\ figures' = Append(figures, PngPriceMa(symbol))
    /\ pc' = "plot2"
    /\ UNCHANGED <<symbol, n_splits, response, prices, cache, X, y, meta, folds,
                   fold, oof_pred, oof_proba, writers, fold_idx, cls, pnl,
                   metrics_file, n_writes, pdf, metrics, err>>

OosProbTimeline ==
    /\ pc = "plot2"
    /\ log' = Append(log, "oos_prob_timeline")
    /\ figures' = Append(figures, PngOosProba)
    /\ pc' = "plot3"
    /\ UNCHANGED <<symbol, n_splits, response, prices, cache, X, y, meta, folds,
                   fold, oof_pred, oof_proba, writers, fold_idx, cls, pnl,
                   metrics_file, n_writes, pdf, metrics, err>>

MomentumStatesPlot ==
    /\ pc = "plot3"
    /\ log' = Append(log, "momentum_states_plot")
    /\ figures' = Append(figures, PngMomentum(symbol))
    /\ pc' = "pdf"
    /\ UNCHANGED <<symbol, n_splits, response, prices, cache, X, y, meta, folds,
                   fold, oof_pred, oof_proba, writers, fold_idx, cls, pnl,
                   metrics_file, n_writes, pdf, metrics, err>>

BuildPdfReport ==
    /\ pc = "pdf"
    /\ log' = Append(log, "build_pdf_report")
    /\ pdf' = <<PdfPath(symbol)>>
    /\ metrics' = <<Loads(metrics_file[1])>>
    /\ pc' = "done"
    /\ UNCHANGED <<symbol, n_splits, response, prices, cache, X, y, meta, folds,
                   fold, oof_pred, oof_proba, writers, fold_idx, cls, pnl,
                   metrics_file, n_writes, figures, err>>

Next ==
    \/ LoadPricesEmpty
    \/ LoadPrices
    \/ MakeFeatureTable
    \/ CvSplitterFails
    \/ CvStart
    \/ CvSplitFails
    \/ CvFitFails
    \/ CvFold
    \/ CvReturn
    \/ ClassificationReport
    \/ SignalPnl
    \/ WriteMetrics
    \/ PriceWithMa
    \/ OosProbTimeline
    \/ MomentumStatesPlot
    \/ BuildPdfReport

Spec == Init /\ [][Next]_vars

(***************************************************************************)
(* Properties.                                                             *)
(***************************************************************************)
Called(stage) == \E i \in 1..Len(log) : log[i] = stage

\* time_series_cv_predictions was called and got past the splitter
CvEntered == Called("time_series_cv_predictions") /\ err # SplitterError

\* time_series_cv_predictions returned
CvReturned == pc \in {"classification", "pnl", "write", "plot1", "plot2", "plot3",
                      "pdf", "done"}

TestRows == UNION {folds[i].te : i \in 1..Len(folds)}

\* C1, as the claim states it: for every row count N and fold count K with
\* K <= N the evaluator splits without an error, and when it returns it has
\* produced K folds with pairwise disjoint test sets that cover N minus the
\* first block's rows.
C1_Original ==
    (Called("time_series_cv_predictions") /\ n_splits <= Len(X)) =>
        /\ err \notin {SplitterError, SplitError}
        /\ CvReturned =>
            /\ Len(folds) = n_splits
            /\ \A i \in 1..Len(folds), j \in 1..Len(folds) :
                  i # j => folds[i].te \cap folds[j].te = {}
            /\ Cardinality(TestRows) = Len(X) - Cardinality(folds[1].tr)

\* C1, amended: for every N and K with 2 <= K and K + 1 <= N the split raises
\* no error; the folds yielded so far have pairwise disjoint test sets of
\* floor(N / (K + 1)) rows each; and when the evaluator returns there are K of
\* them, the first block has the N - K * floor(N / (K + 1)) remaining rows and
\* the test sets cover exactly the N - (first block) rows after it.
C1_FoldsPartition ==
    (Called("time_series_cv_predictions") /\ 2 <= n_splits /\ n_splits + 1 <= Len(X)) =>
        /\ err \notin {SplitterError, SplitError}
        /\ \A i \in 1..Len(folds), j \in 1..Len(folds) :
              i # j => folds[i].te \cap folds[j].te = {}
        /\ \A i \in 1..Len(folds) :
              Cardinality(folds[i].te) = Len(X) \div (n_splits + 1)
        /\ CvReturned =>
            /\ Len(folds) = n_splits
            /\ Cardinality(folds[1].tr)
                 = Len(X) - n_splits * (Len(X) \div (n_splits + 1))
            /\ Cardinality(TestRows) = Len(X) - Cardinality(folds[1].tr)
            /\ TestRows = (Cardinality(folds[1].tr) + 1)..Len(X)

\* C1 witness: the evaluator returned on a table whose rows do not divide
\* evenly into K + 1 blocks
C1_Witness ==
    /\ pc = "classification"
    /\ Len(folds) = n_splits
    /\ Len(X) % (n_splits + 1) # 0

\* C2: at any point of the fold loop every row of oof_pred and oof_proba has
\* been written by at most one fold, the two vectors are populated together
\* and only on rows of a yielded test set; when the loop has finished the
\* populated rows are exactly the union of the test sets and every row of the
\* first block holds NaN in both vectors.
C2_WriteOnce ==
    CvEntered =>
        /\ Len(oof_pred) = Len(y) /\ Len(oof_proba) = Len(y)
        /\ \A i \in 1..Len(oof_pred) :
              /\ Cardinality(writers[i]) <= 1
              /\ IsNaN(oof_pred[i]) <=> IsNaN(oof_proba[i])
              /\ ~IsNaN(oof_pred[i]) <=> writers[i] # {}
              /\ \A w \in writers[i] : w \in 1..Len(folds) /\ i \in folds[w].te
        /\ CvReturned =>
            /\ Scored(oof_pred) = TestRows
            /\ Scored(oof_proba) = TestRows
            /\ \A i \in folds[1].tr : IsNaN(oof_pred[i]) /\ IsNaN(oof_proba[i])
            /\ \A i \in TestRows : Cardinality(writers[i]) = 1

\* C2 witness: the loop finished with rows written and rows left NaN
C2_Witness ==
    /\ pc = "classification"
    /\ \E i \in 1..Len(oof_pred) : IsNaN(oof_pred[i])
    /\ \E i \in 1..Len(oof_pred) : ~IsNaN(oof_pred[i]) /\ writers[i] = {n_splits}

\* C3: in every fold the training set is a contiguous prefix of the rows, the
\* test set is the block right after it, every training row precedes every
\* test row, and fold i + 1 trains on fold i's training set plus fold i's test
\* set, which is strictly more rows.
C3_ExpandingWindow ==
    /\ \A i \in 1..Len(folds) :
          /\ folds[i].tr = 1..Cardinality(folds[i].tr)
          /\ folds[i].tr # {}
          /\ folds[i].te # {}
          /\ folds[i].te = (Cardinality(folds[i].tr) + 1)
                             ..(Cardinality(folds[i].tr) + Cardinality(folds[i].te))
          /\ folds[i].te \subseteq 1..Len(X)
          /\ \A a \in folds[i].tr, b \in folds[i].te : a < b
    /\ \A i \in 1..(Len(folds) - 1) :
          /\ folds[i + 1].tr = folds[i].tr \cup folds[i].te
          /\ Cardinality(folds[i + 1].tr) > Cardinality(folds[i].tr)

\* C3 witness: three folds were yielded
C3_Witness == Len(folds) = 3 /\ pc = "cv_loop"

\* C4: in every fold, the label of every training row is resolved (5 business
\* days after the row's date) strictly before the first test row's date.
C4_LookAheadBoundary ==
    \A i \in 1..Len(folds) :
        \A a \in folds[i].tr, b \in folds[i].te :
            y[a].date + FwdHorizon < y[b].date

\* make_feature_table returned
TablesBuilt == Called("make_feature_table")

Dates(table) == [i \in 1..Len(table) |-> table[i].date]

\* C5: the three tables of make_feature_table have the same number of rows
\* and the same dates in the same order, the dates are a strictly increasing
\* selection of the input's dates, and no returned row holds NaN in a feature
\* column, in fwd_5d_ret or in ret_1d.
C5_TablesAligned ==
    TablesBuilt =>
        /\ Len(X) = Len(y) /\ Len(y) = Len(meta)
        /\ Dates(X) = Dates(y) /\ Dates(y) = Dates(meta)
        /\ \A i \in 1..Len(X) : X[i].date \in 1..Len(prices)
        /\ \A i \in 1..(Len(X) - 1) : X[i].date < X[i + 1].date
        /\ \A i \in 1..Len(X) :
              /\ \A j \in 1..Len(FeatureCols) : ~IsNaN(X[i][FeatureCols[j]])
              /\ ~IsNaN(meta[i].fwd_5d_ret)
              /\ ~IsNaN(meta[i].ret_1d)
              /\ meta[i].close = prices[meta[i].date]

\* C5 witness: tables with rows before and after a dropped stretch of dates
C5_Witness ==
    /\ pc = "cv"
    /\ \E i \in 1..(Len(X) - 1) : X[i + 1].date > X[i].date + 1

\* C6, as the claim states it: for a series of L rows the tables have at most
\* L - 55 rows, and none when L <= 55.
C6_Original ==
    TablesBuilt => Len(X) <= Max(0, Len(prices) - 55)

\* C6, amended: for a series of L rows the tables have at most L - 54 rows:
\* the 49 leading rows are removed for the warm-up of the 50-row moving
\* average and the 5 trailing rows for the forward-label horizon, so every
\* returned date lies in 50..L - 5 and the tables are empty when L <= 54.
C6_RowBound ==
    TablesBuilt =>
        /\ Len(X) <= Max(0, Len(prices) - (MaSlow - 1) - FwdHorizon)
        /\ \A i \in 1..Len(X) :
              X[i].date >= MaSlow /\ X[i].date <= Len(prices) - FwdHorizon
        /\ Len(prices) <= 54 => Len(X) = 0

\* C6 witness: a 55-row series that yields one row, the bound L - 54
C6_Witness ==
    /\ pc = "cv"
    /\ Len(prices) = 55
    /\ Len(X) = 1

StrictlyIncreasing(col) == \A t \in 1..(Len(col) - 1) : FGt(col[t + 1], col[t])

\* the scenario of C7: a 100-row strictly increasing series and three folds
TrendScenario ==
    /\ Len(prices) = 100
    /\ StrictlyIncreasing(prices)
    /\ n_splits = 3

\* C7, as the claim states it: in the scenario no fold's fit fails on
\* single-class training labels, the run reaches the metrics, and the
\* predictions equal the labels on every scored row.
C7_Original ==
    TrendScenario =>
        /\ err # SingleClassError
        /\ CvReturned =>
            \A i \in Scored(oof_pred) : oof_pred[i] = y[i].y_cls

\* C7, amended: in the scenario make_feature_table returns 46 rows, all with
\* label 1, and time_series_cv_predictions ends in the first fold's fit with
\* the single-class error: no prediction is written and no metrics file.
C7_TrendIsSingleClass ==
    TrendScenario =>
        /\ Len(X) = 46
        /\ \A i \in 1..Len(y) : y[i].y_cls = One
        /\ \/ pc = "cv_loop" /\ fold = 0 /\ err = NoError
           \/ pc = "failed" /\ fold = 0 /\ err = SingleClassError
        /\ \A i \in 1..Len(oof_pred) : IsNaN(oof_pred[i]) /\ IsNaN(oof_proba[i])
        /\ fold_idx = <<>>
        /\ metrics_file = <<>>

\* C7 witness: the scenario's run has ended in the single-class error
C7_Witness ==
    /\ TrendScenario
    /\ pc = "failed"
    /\ err = SingleClassError
    /\ Len(folds) = 1

ConstantSeries(col) == Len(col) > 0 /\ \A t \in 1..Len(col) : col[t] = col[1]

AfterWarmUp(col) == {t \in 1..Len(col) : t >= MaSlow /\ t <= Len(col) - FwdHorizon}

\* C8, as the claim states it: for a constant series the output tables hold
\* the rows after warm-up, each with mom_5, mom_20, the returns and vol_10
\* exactly 0, rsi_14 NaN and label 0.
C8_Original ==
    (pc = "cv" /\ ConstantSeries(prices)) =>
        /\ {X[i].date : i \in 1..Len(X)} = AfterWarmUp(prices)
        /\ \A i \in 1..Len(X) :
              /\ IsZero(X[i].mom_5) /\ IsZero(X[i].mom_20) /\ IsZero(X[i].vol_10)
              /\ IsZero(meta[i].ret_1d) /\ IsZero(meta[i].fwd_5d_ret)
              /\ IsNaN(X[i].rsi_14)
              /\ y[i].y_cls = Zero

\* C8, amended: for a constant series every row of the frame after warm-up has
\* mom_5, mom_20, the returns and vol_10 exactly 0, rsi_14 NaN (zero average
\* gain over zero average loss) and label 0 before the drop; as rsi_14 is NaN
\* on every row, the drop removes every row and the three tables are empty.
C8_ConstantSeries ==
    (pc = "cv" /\ ConstantSeries(prices)) =>
        LET frame == FeatureFrame(prices)
        IN  /\ \A t \in AfterWarmUp(prices) :
                  /\ IsZero(frame[t].mom_5) /\ IsZero(frame[t].mom_20)
                  /\ IsZero(frame[t].ret_1d) /\ IsZero(frame[t].ret_5d)
                  /\ IsZero(frame[t].fwd_5d_ret)
                  /\ IsZero(frame[t].vol_10)
                  /\ IsNaN(frame[t].rsi_14)
                  /\ frame[t].y_cls = Zero
            /\ \A t \in 1..Len(prices) : IsNaN(frame[t].rsi_14)
            /\ X = <<>> /\ y = <<>> /\ meta = <<>>

\* C8 witness: make_feature_table returned on a constant series long enough
\* to have rows after warm-up
C8_Witness ==
    /\ pc = "cv"
    /\ ConstantSeries(prices)
    /\ AfterWarmUp(prices) # {}
    /\ X = <<>>

\* C9: when the provider answers nothing, load_prices raises the no-data
\* error naming the symbol before the cache file is written, and the run ends
\* there: no later stage is called and no artifact is written.
C9_EmptyResponseAborts ==
    (Called("load_prices") /\ Empty(response)) =>
        /\ pc = "failed"
        /\ err = [kind |-> "ValueError", text |-> "No data returned for", arg |-> symbol]
        /\ cache = <<>>
        /\ log = <<"load_prices">>
        /\ prices = <<>> /\ X = <<>> /\ y = <<>> /\ meta = <<>>
        /\ folds = <<>> /\ oof_pred = <<>> /\ oof_proba = <<>>
        /\ cls = <<>> /\ pnl = <<>>
        /\ metrics_file = <<>> /\ n_writes = 0
        /\ figures = <<>> /\ pdf = <<>>

\* C9 witness: the run has ended on an empty answer
C9_Witness ==
    /\ pc = "failed"
    /\ Empty(response)
    /\ err.arg = symbol
    /\ log = <<"load_prices">>

\* how far the run has come, as a number of completed stages
Completed ==
    CASE pc = "load" -> 0
      [] pc = "features" -> 1
      [] pc = "cv" -> 2
      [] pc = "cv_loop" -> 2
      [] pc = "classification" -> 3
      [] pc = "pnl" -> 4
      [] pc = "write" -> 5
      [] pc = "plot1" -> 6
      [] pc = "plot2" -> 7
      [] pc = "plot3" -> 8
      [] pc = "pdf" -> 9
      [] pc = "done" -> 10
      [] pc = "failed" -> Len(log) - 1

\* the inputs C10 names: an empty or too short table, or a fold whose training
\* labels are of one class
FatalTable ==
    /\ Called("time_series_cv_predictions")
    /\ \/ Len(X) = 0
       \/ Len(X) < n_splits + 1
       \/ \E i \in 1..n_splits : SingleClass(y, SplitFold(Len(X), n_splits, i).tr)

\* C10: the stages are called in the order of main, each once and each only
\* when the one before it has completed; metrics.json is written at most
\* once, and only when every fold has been fitted and both metric groups are
\* computed; on an empty or too short feature table, or single-class training
\* labels in a fold, the run ends in an error before metrics.json is written
\* and no stage is called again.
C10_StageOrder ==
    /\ Len(log) <= Len(Stages)
    /\ \A i \in 1..Len(log) : log[i] = Stages[i]
    /\ Len(log) \in {Completed, Completed + 1}
    /\ Len(log) = Completed + 1 => pc \in {"cv_loop", "failed"}
    /\ n_writes <= 1
    /\ metrics_file # <<>> <=> n_writes = 1
    /\ n_writes = 1 <=> Called("write_metrics")
    /\ Called("write_metrics") =>
          /\ fold = n_splits
          /\ Len(fold_idx) = n_splits
          /\ cls # <<>> /\ pnl # <<>>
          /\ metrics_file = <<Dumps(cls[1], pnl[1])>>
    /\ pc = "failed" <=> err # NoError
    /\ FatalTable =>
          /\ pc \in {"cv_loop", "failed"}
          /\ fold < n_splits
          /\ n_writes = 0 /\ metrics_file = <<>>
          /\ cls = <<>> /\ pnl = <<>>

\* C10 witness: a run that completed every stage and wrote metrics.json once
C10_Witness ==
    /\ pc = "done"
    /\ log = Stages
    /\ n_writes = 1

\* the rows the metrics score, and what they hold
ScoredRows == Scored(oof_pred)
Longs == {i \in ScoredRows : oof_pred[i] = One}
Hits == {i \in ScoredRows : oof_pred[i] = y[i].y_cls}
BothClasses == \E i \in ScoredRows, j \in ScoredRows : y[i].y_cls # y[j].y_cls

\* C11: with at least one scored row, classification_report_oos and
\* simple_signal_pnl return without raising: n_oos is the number of rows with
\* a non-missing prediction and accuracy is taken over exactly those rows;
\* precision_pos and recall_pos are 0.0 when no scored row is predicted
\* positive; roc_auc is a number exactly when both classes occur among the
\* scored true labels and NaN otherwise; hit_rate_when_long is NaN when no
\* scored row has predicted class 1.
C11_DegenerateMetrics ==
    /\ CvReturned => ScoredRows # {}
    /\ pc \in {"pnl", "write"} => err = NoError
    /\ cls # <<>> =>
          /\ cls[1].n_oos = Num(Cardinality(ScoredRows))
          /\ FEq(cls[1].accuracy, FDiv(Count(Hits), Count(ScoredRows)))
          /\ IsFinite(cls[1].precision_pos) /\ IsFinite(cls[1].recall_pos)
          /\ Longs = {} => IsZero(cls[1].precision_pos) /\ IsZero(cls[1].recall_pos)
          /\ BothClasses => IsFinite(cls[1].roc_auc)
          /\ ~BothClasses => IsNaN(cls[1].roc_auc)
    /\ pnl # <<>> =>
          /\ Longs = {} => IsNaN(pnl[1].hit_rate_when_long)
          /\ Longs # {} => IsFinite(pnl[1].hit_rate_when_long)
          /\ IsFinite(pnl[1].strat_cum_return)

\* C11 witness: both metric groups were computed on scored rows of one class
\* with no row predicted positive
C11_Witness ==
    /\ cls # <<>> /\ pnl # <<>>
    /\ ScoredRows # {}
    /\ Longs = {}
    /\ ~BothClasses
    /\ \E i \in ScoredRows : y[i].y_cls = One

\* the mapping main hands to json.dumps
Written == [classification |-> cls[1], pnl_sketch |-> pnl[1]]

\* the parsed mapping has the keys of the written one
SameKeys(parsed, written) ==
    /\ DOMAIN parsed = DOMAIN written
    /\ \A g \in DOMAIN written : DOMAIN parsed[g] = DOMAIN written[g]

====
